---- MODULE Spec2Model ----
(***************************************************************************)
(* Model of the two monitors of wagner-sm/monitor_urbs:                    *)
(*   src/monitor.py       MultiSiteMonitor (several sites, one run)        *)
(*   src/monitor_urbs.py  URBSMonitor      (one fixed site)                *)
(* A behaviour is a sequence of process invocations (main -> run) over the *)
(* files both monitors keep on disk between invocations.                   *)
(***************************************************************************)
EXTENDS Integers, Sequences, FiniteSets, TLC

\* Number of process invocations explored (also the range of timestamps).
MaxRuns == 3
\* Number of storage faults (failed writes, deaths of the process) explored.
MaxFaults == 1

\* Number of elements of a page explored.
MaxPage == 3

\* monitor.py:237  `len(content) < 50`
MIN_CONTENT == 50
\* monitor_urbs.py:322  `len(new_content) < 100`
URBS_MIN_CONTENT == 100
\* monitor.py:164  `len(html) < 5000`
MIN_HTML == 5000

(***************************************************************************)
(* Normalized content.  A content is a token with a length; the lengths    *)
(* are on both sides of the two viability thresholds.                      *)
(***************************************************************************)
Contents == {"", "c40", "c60", "c120a", "c120b"}

len(c) ==
    CASE c = "" -> 0
      [] c = "c40" -> 40
      [] c = "c60" -> 60
      [] OTHER -> 120

\* hashlib.sha256(content.encode("utf-8")).hexdigest(): a non-empty digest,
\* one per content (the first hex digits stand for the 64 of the digest).
calculate_hash(c) ==
    CASE c = "" -> "e3b0c442"
      [] c = "c40" -> "5f1d09aa"
      [] c = "c60" -> "a81c77e0"
      [] c = "c120a" -> "0b94d2c3"
      [] OTHER -> "d7e630f1"

\* What extract_content yields for the pages explored.  For monitor.py ""
\* and "c40" take the same branch of detect_change, so "c40" stands for both.
PageContents(p) ==
    IF p = "multi" THEN {"c40", "c60", "c120a"} ELSE Contents

(***************************************************************************)
(* Sites.  A URL is its netloc (a sequence of labels) and its path.        *)
(***************************************************************************)
UrbsBoletim ==
    [netloc |-> <<"www", "urbs", "curitiba", "pr", "gov", "br">>,
     path |-> "/transporte/boletim-de-transportes"]
Eueanatureza ==
    [netloc |-> <<"www", "eueanatureza", "com", "br">>,
     path |-> "/ensaios_modelos"]
\* a second page of the URBS host, as an operator would add it to SITES
UrbsHorarios ==
    [netloc |-> <<"www", "urbs", "curitiba", "pr", "gov", "br">>,
     path |-> "/horario-de-onibus"]

\* URBSMonitor.URBS_URL
URBS_URL == UrbsBoletim

\* The values of MultiSiteMonitor.SITES explored: the list of the source,
\* and lists an operator gets by editing it ("ADICIONE SEUS SITES AQUI").
SiteLists ==
    { <<UrbsBoletim, Eueanatureza>>,
      <<UrbsBoletim, UrbsHorarios>> }

str_upper(s) ==
    CASE s = "urbs" -> "URBS"
      [] s = "eueanatureza" -> "EUEANATUREZA"
      [] OTHER -> s

str_lower(s) ==
    CASE s = "URBS" -> "urbs"
      [] s = "EUEANATUREZA" -> "eueanatureza"
      [] OTHER -> s

\* domain.replace("www.", "").split(".")[0].upper()
get_site_name(url) ==
    LET domain == SelectSeq(url.netloc, LAMBDA l : l # "www")
    IN  str_upper(Head(domain))

\* data_dir / f"{site_name.lower()}_hash.json" and ..._content.txt: both
\* files of a site are named by the same stem.
get_site_hash_file(url) == <<"data", str_lower(get_site_name(url))>>

\* URBSMonitor: Path("urbs_hash.json"), Path("urbs_content.txt")
URBS_hash_file == <<".", "urbs">>

Stems == {get_site_hash_file(u) : u \in {UrbsBoletim, Eueanatureza, UrbsHorarios}}
             \cup {URBS_hash_file}

(***************************************************************************)
(* Files.                                                                  *)
(***************************************************************************)
AbsentFile == [kind |-> "absent", hash |-> "", timestamp |-> 0]
\* a file opened with "w" (truncated) whose write did not complete
PartialFile == [kind |-> "partial", hash |-> "", timestamp |-> 0]
JsonFile(h, t) == [kind |-> "json", hash |-> h, timestamp |-> t]

AbsentText == [kind |-> "absent", text |-> ""]
PartialText == [kind |-> "partial", text |-> ""]
TextFile(c) == [kind |-> "text", text |-> c]

\* What can go wrong while detect_change writes: open() fails (the file is
\* left as it was), the write fails after open() truncated the file, or the
\* process dies after open() truncated the file.
Faults == {"none", "content_open", "content_write",
           "hash_open", "hash_write", "hash_crash"}

(***************************************************************************)
(* Fingerprint store and change detection of MultiSiteMonitor.             *)
(***************************************************************************)
\* json.load(f).get("hash", ""): "" when the file does not exist, an
\* exception when the file does not parse.
load_last_hash(hf) ==
    CASE hf.kind = "absent" -> [raised |-> FALSE, value |-> ""]
      [] hf.kind = "partial" -> [raised |-> TRUE, value |-> ""]
      [] OTHER -> [raised |-> FALSE, value |-> hf.hash]

\* open(hash_file, "w") then json.dump({"hash", "timestamp"}); exceptions
\* propagate to the caller.
save_hash(hf, content_hash, t, fault) ==
    CASE fault = "hash_open" ->
            [raised |-> TRUE, crashed |-> FALSE, file |-> hf]
      [] fault = "hash_write" ->
            [raised |-> TRUE, crashed |-> FALSE, file |-> PartialFile]
      [] fault = "hash_crash" ->
            [raised |-> FALSE, crashed |-> TRUE, file |-> PartialFile]
      [] OTHER ->
            [raised |-> FALSE, crashed |-> FALSE, file |-> JsonFile(content_hash, t)]

\* open(content_file, "w") then f.write(content); exceptions propagate.
save_content(cf, content, fault) ==
    CASE fault = "content_open" -> [raised |-> TRUE, file |-> cf]
      [] fault = "content_write" -> [raised |-> TRUE, file |-> PartialText]
      [] OTHER -> [raised |-> FALSE, file |-> TextFile(content)]

Outcome(ret, hf, cf) == [ret |-> ret, hash_file |-> hf, content_file |-> cf]

\* The outcome of a save_hash that closes detect_change: `ret` when it
\* succeeded.
AfterSave(sh, ret) ==
    IF sh.crashed THEN "crash" ELSE IF sh.raised THEN "raise" ELSE ret

\* detect_change without the save_hash of its last branch.
detect_change_keeps_old_hash(hf, cf, content, t, fault) ==
    IF content = "" \/ len(content) < MIN_CONTENT
    THEN Outcome("False", hf, cf)
    ELSE LET new_hash == calculate_hash(content)
             old == load_last_hash(hf)
             sc == save_content(cf, content, fault)
             sh == save_hash(hf, new_hash, t, fault)
         IN  IF old.raised THEN Outcome("raise", hf, cf)
             ELSE IF sc.raised THEN Outcome("raise", hf, sc.file)
             ELSE IF old.value = ""
                  THEN Outcome(AfterSave(sh, "False"), sh.file, sc.file)
             ELSE IF new_hash = old.value
                  THEN Outcome("False", hf, sc.file)
             ELSE Outcome("True", hf, sc.file)

\* detect_change without its `if not old_hash` branch.
detect_change_no_baseline(hf, cf, content, t, fault) ==
    IF content = "" \/ len(content) < MIN_CONTENT
    THEN Outcome("False", hf, cf)
    ELSE LET new_hash == calculate_hash(content)
             old == load_last_hash(hf)
             sc == save_content(cf, content, fault)
             sh == save_hash(hf, new_hash, t, fault)
         IN  IF old.raised THEN Outcome("raise", hf, cf)
             ELSE IF sc.raised THEN Outcome("raise", hf, sc.file)
             ELSE IF new_hash = old.value
                  THEN Outcome("False", hf, sc.file)
             ELSE Outcome(AfterSave(sh, "True"), sh.file, sc.file)

\* detect_change with a save_hash in its `new_hash == old_hash` branch.
detect_change_always_saves(hf, cf, content, t, fault) ==
    IF content = "" \/ len(content) < MIN_CONTENT
    THEN Outcome("False", hf, cf)
    ELSE LET new_hash == calculate_hash(content)
             old == load_last_hash(hf)
             sc == save_content(cf, content, fault)
             sh == save_hash(hf, new_hash, t, fault)
         IN  IF old.raised THEN Outcome("raise", hf, cf)
             ELSE IF sc.raised THEN Outcome("raise", hf, sc.file)
             ELSE IF old.value = ""
                  THEN Outcome(AfterSave(sh, "False"), sh.file, sc.file)
             ELSE IF new_hash = old.value
                  THEN Outcome(AfterSave(sh, "False"), sh.file, sc.file)
             ELSE Outcome(AfterSave(sh, "True"), sh.file, sc.file)

\* detect_change that writes no snapshot with the first fingerprint.
detect_change_no_first_snapshot(hf, cf, content, t, fault) ==
    IF content = "" \/ len(content) < MIN_CONTENT
    THEN Outcome("False", hf, cf)
    ELSE LET new_hash == calculate_hash(content)
             old == load_last_hash(hf)
             sc == save_content(cf, content, fault)
             sh == save_hash(hf, new_hash, t, fault)
         IN  IF old.raised THEN Outcome("raise", hf, cf)
             ELSE IF old.value = ""
                  THEN Outcome(AfterSave(sh, "False"), sh.file, cf)
             ELSE IF sc.raised THEN Outcome("raise", hf, sc.file)
             ELSE IF new_hash = old.value
                  THEN Outcome("False", hf, sc.file)
             ELSE Outcome(AfterSave(sh, "True"), sh.file, sc.file)

\* MultiSiteMonitor.detect_change on the two files of the site, at time t.
\* ret: "True", "False", "raise" (an exception leaves the method) or "crash".
detect_change(hf, cf, content, t, fault) ==
    IF content = "" \/ len(content) < MIN_CONTENT
    THEN Outcome("False", hf, cf)
    ELSE LET new_hash == calculate_hash(content)
             old == load_last_hash(hf)
             sc == save_content(cf, content, fault)
             sh == save_hash(hf, new_hash, t, fault)
         IN  IF old.raised THEN Outcome("raise", hf, cf)
             ELSE IF sc.raised THEN Outcome("raise", hf, sc.file)
             ELSE IF old.value = ""
                  THEN Outcome(AfterSave(sh, "False"), sh.file, sc.file)
             ELSE IF new_hash = old.value
                  THEN Outcome("False", hf, sc.file)
             ELSE Outcome(AfterSave(sh, "True"), sh.file, sc.file)

(***************************************************************************)
(* Fingerprint store and change detection of URBSMonitor.                  *)
(***************************************************************************)
\* "" when the file does not exist; `except: return ""` when it does not
\* parse.
URBS_load_last_hash(hf) ==
    CASE hf.kind = "absent" -> ""
      [] hf.kind = "partial" -> ""
      [] OTHER -> hf.hash

\* the write is inside try/except: a failure is logged, nothing is raised
URBS_save_hash(hf, content_hash, t, fault) ==
    CASE fault = "hash_open" -> [crashed |-> FALSE, file |-> hf]
      [] fault = "hash_write" -> [crashed |-> FALSE, file |-> PartialFile]
      [] fault = "hash_crash" -> [crashed |-> TRUE, file |-> PartialFile]
      [] OTHER -> [crashed |-> FALSE, file |-> JsonFile(content_hash, t)]

\* the write is inside try/except: a failure is logged, nothing is raised
URBS_save_content(cf, content, fault) ==
    CASE fault = "content_open" -> cf
      [] fault = "content_write" -> PartialText
      [] OTHER -> TextFile(content)

\* URBSMonitor.detect_change with the threshold of monitor.py.
URBS_detect_change_min50(hf, cf, content, t, fault) ==
    IF content = "" \/ len(content) < MIN_CONTENT
    THEN Outcome("False", hf, cf)
    ELSE LET new_hash == calculate_hash(content)
             old_hash == URBS_load_last_hash(hf)
             cf2 == URBS_save_content(cf, content, fault)
             sh == URBS_save_hash(hf, new_hash, t, fault)
         IN  IF old_hash = ""
             THEN Outcome(IF sh.crashed THEN "crash" ELSE "False", sh.file, cf2)
             ELSE IF new_hash = old_hash
                  THEN Outcome("False", hf, cf2)
             ELSE Outcome(IF sh.crashed THEN "crash" ELSE "True", sh.file, cf2)

\* URBSMonitor.detect_change.  ret: "True", "False" or "crash".
URBS_detect_change(hf, cf, content, t, fault) ==
    IF content = "" \/ len(content) < URBS_MIN_CONTENT
    THEN Outcome("False", hf, cf)
    ELSE LET new_hash == calculate_hash(content)
             old_hash == URBS_load_last_hash(hf)
             cf2 == URBS_save_content(cf, content, fault)
             sh == URBS_save_hash(hf, new_hash, t, fault)
         IN  IF old_hash = ""
             THEN Outcome(IF sh.crashed THEN "crash" ELSE "False", sh.file, cf2)
             ELSE IF new_hash = old_hash
                  THEN Outcome("False", hf, cf2)
             ELSE Outcome(IF sh.crashed THEN "crash" ELSE "True", sh.file, cf2)

(***************************************************************************)
(* Rendering engine.  `engines` lists the engines created in this          *)
(* process, each by the number of quit() calls it has received; `driver`   *)
(* is self.driver: 0 for None, else an index into `engines`.               *)
(***************************************************************************)
\* how = "fail": webdriver.Chrome(...) raises, self.driver is not assigned;
\* how = "partial": self.driver is assigned and set_page_load_timeout raises.
create_selenium_driver(engs, how) ==
    CASE how = "create_fail" ->
            [raised |-> TRUE, driver |-> 0, engines |-> engs]
      [] how = "create_partial" ->
            [raised |-> TRUE, driver |-> Len(engs) + 1, engines |-> Append(engs, 0)]
      [] OTHER ->
            [raised |-> FALSE, driver |-> Len(engs) + 1, engines |-> Append(engs, 0)]

FetchKinds == {"ok", "create_fail", "create_partial", "driver_error", "too_small"}

\* len(self.driver.page_source) of the pages explored: one character under
\* the threshold of monitor.py, or at it
page_source_len(how) ==
    IF how = "too_small" THEN MIN_HTML - 1 ELSE MIN_HTML

\* get_site_content with the retry policy of a hardened fetch: three tries,
\* the engine quit and created anew before the last one.
get_site_content_retrying(drv, engs, how, c) ==
    LET cr == IF drv = 0
              THEN create_selenium_driver(engs, how)
              ELSE [raised |-> FALSE, driver |-> drv, engines |-> engs]
        quit == IF cr.driver # 0
                THEN [cr.engines EXCEPT ![cr.driver] = @ + 1]
                ELSE cr.engines
    IN  IF cr.raised \/ how \in {"driver_error", "too_small"}
        THEN [raised |-> TRUE, content |-> "", driver |-> Len(quit) + 1,
              engines |-> Append(quit, 0), attempts |-> 3,
              html_len |-> IF how = "too_small" THEN page_source_len(how) ELSE 0]
        ELSE [raised |-> FALSE, content |-> c, driver |-> cr.driver,
              engines |-> cr.engines, attempts |-> 1,
              html_len |-> page_source_len(how)]

\* get_site_content without its check of len(html).
get_site_content_any_size(drv, engs, how, c) ==
    LET cr == IF drv = 0
              THEN create_selenium_driver(engs, how)
              ELSE [raised |-> FALSE, driver |-> drv, engines |-> engs]
    IN  IF cr.raised \/ how = "driver_error"
        THEN [raised |-> TRUE, content |-> "", driver |-> cr.driver,
              engines |-> cr.engines, attempts |-> 1, html_len |-> 0]
        ELSE [raised |-> FALSE, content |-> c, driver |-> cr.driver,
              engines |-> cr.engines, attempts |-> 1,
              html_len |-> page_source_len(how)]

\* MultiSiteMonitor.get_site_content: the engine is created when there is
\* none, the page is loaded, an undersized page raises ValueError; there
\* is no loop: `attempts`, the tries made before it returns or raises, is 1.
\* html_len is len(html), 0 when no page source was obtained.
get_site_content(drv, engs, how, c) ==
    LET cr == IF drv = 0
              THEN create_selenium_driver(engs, how)
              ELSE [raised |-> FALSE, driver |-> drv, engines |-> engs]
    IN  IF cr.raised \/ how = "driver_error"
        THEN [raised |-> TRUE, content |-> "", driver |-> cr.driver,
              engines |-> cr.engines, attempts |-> 1, html_len |-> 0]
        ELSE IF page_source_len(how) < MIN_HTML
        THEN [raised |-> TRUE, content |-> "", driver |-> cr.driver,
              engines |-> cr.engines, attempts |-> 1,
              html_len |-> page_source_len(how)]
        ELSE [raised |-> FALSE, content |-> c, driver |-> cr.driver,
              engines |-> cr.engines, attempts |-> 1,
              html_len |-> page_source_len(how)]

\* URBSMonitor.create_selenium_driver: option 1 (webdriver-manager), then
\* option 2 (a Chrome found on disk); returns True or False, never raises.
\* opt1, opt2: "ok", "fail" (no driver assigned; for option 2 also: no
\* Chrome found) or "partial" (self.driver assigned, then an exception).
URBS_create_selenium_driver(engs, opt1, opt2) ==
    LET drv1 == IF opt1 = "fail" THEN 0 ELSE Len(engs) + 1
        engs1 == IF opt1 = "fail" THEN engs ELSE Append(engs, 0)
    IN  IF opt1 = "ok"
        THEN [ok |-> TRUE, driver |-> drv1, engines |-> engs1]
        ELSE IF opt2 = "fail"
        THEN [ok |-> FALSE, driver |-> drv1, engines |-> engs1]
        ELSE [ok |-> (opt2 = "ok"), driver |-> Len(engs1) + 1,
              engines |-> Append(engs1, 0)]

\* URBSMonitor.get_urbs_content: "" on any failure; n is len(html) of the
\* page source, which is logged and not checked.
URBS_get_content(drv, engs, opt1, opt2, page_ok, n, c) ==
    LET cr == IF drv = 0
              THEN URBS_create_selenium_driver(engs, opt1, opt2)
              ELSE [ok |-> TRUE, driver |-> drv, engines |-> engs]
    IN  [content |-> IF cr.ok /\ page_ok THEN c ELSE "",
         driver |-> cr.driver, engines |-> cr.engines,
         html_len |-> IF cr.ok /\ page_ok THEN n ELSE 0]

\* finally: if self.driver: self.driver.quit() (an exception of quit() is
\* swallowed)
release(drv, engs) ==
    IF drv # 0 THEN [engs EXCEPT ![drv] = @ + 1] ELSE engs

\* one send_email_notification per changed site
notifications_per_site(changed) ==
    [i \in 1..Len(changed) |-> <<changed[i]>>]

\* MultiSiteMonitor.run after the loop: the calls of
\* send_email_notification, each by its argument.
notifications(changed) ==
    IF changed # <<>> THEN <<changed>> ELSE <<>>

(***************************************************************************)
(* Normalization.  A page is the sequence of its elements in document      *)
(* order; an element has a tag, a text, and the element it is inside of.   *)
(* The pages explored have no table and no list.  A normalized content is  *)
(* the sequence of the tokens of the string: prefixes, texts and "\n".     *)
(***************************************************************************)
Texts == {"Aviso", "Boletim 12 de marco", "Tarifa do transporte coletivo em 2024"}

\* len(text)
text_len(t) ==
    CASE t = "Aviso" -> 5
      [] t = "Boletim 12 de marco" -> 19
      [] OTHER -> 37

\* the order of Python's str: "Aviso" < "Boletim ..." < "Tarifa ..."
str_rank(t) ==
    CASE t = "Aviso" -> 1
      [] t = "Boletim 12 de marco" -> 2
      [] OTHER -> 3

Element(tag, text, inside) == [tag |-> tag, text |-> text, inside |-> inside]

Elements ==
    { Element("h2", "Aviso", "body"),
      Element("h2", "Boletim 12 de marco", "body"),
      Element("h2", "Tarifa do transporte coletivo em 2024", "body"),
      Element("h2", "Boletim 12 de marco", "nav"),
      Element("p", "Tarifa do transporte coletivo em 2024", "body") }

Pages == UNION {[1..n -> Elements] : n \in 0..MaxPage}

\* tags whose elements are removed with all they contain (decompose)
NoiseTags == {"script", "style", "nav", "footer", "header", "aside"}
URBS_NoiseTags == NoiseTags \cup {"meta", "link", "iframe", "noscript"}

\* "\n".join(lines), each line a sequence of tokens
RECURSIVE str_join(_)
str_join(lines) ==
    IF lines = <<>> THEN <<>>
    ELSE IF Len(lines) = 1 THEN lines[1]
    ELSE lines[1] \o <<"\n">> \o str_join(Tail(lines))

\* sorted(S) for a set of texts
RECURSIVE sorted(_)
sorted(S) ==
    IF S = {} THEN <<>>
    ELSE LET m == CHOOSE x \in S : \A y \in S : str_rank(x) <= str_rank(y)
         IN  <<m>> \o sorted(S \ {m})

\* the texts (get_text) of a sequence of elements
get_texts(elements) == [i \in 1..Len(elements) |-> elements[i].text]

\* MultiSiteMonitor.extract_content: titles = the texts of h1, h2, h3 of at
\* least 10 characters
titles(page) ==
    get_texts(SelectSeq(page, LAMBDA e : /\ e.inside \notin NoiseTags
                                         /\ e.tag \in {"h1", "h2", "h3"}
                                         /\ text_len(e.text) >= 10))

\* extract_content that joins the titles as they are found
extract_content_unsorted(page) ==
    IF page = <<>> THEN <<>>
    ELSE str_join([i \in 1..Len(titles(page)) |-> <<titles(page)[i]>>])

\* MultiSiteMonitor.extract_content: "\n".join(sorted(set(titles)))
extract_content(page) ==
    IF page = <<>> THEN <<>>
    ELSE LET lines == sorted({titles(page)[i] : i \in 1..Len(titles(page))})
         IN  str_join([i \in 1..Len(lines) |-> <<lines[i]>>])

\* URBSMonitor.extract_content: content_parts, in the order they are
\* appended: headings, paragraphs, list items ("TITULO: " and "* " stand
\* for the two prefixes of the source)
URBS_content_parts(page) ==
    LET body(e) == e.inside \notin URBS_NoiseTags
        h == get_texts(SelectSeq(page, LAMBDA e : /\ body(e)
                                                  /\ e.tag \in {"h1", "h2", "h3"}
                                                  /\ text_len(e.text) > 3))
        ps == get_texts(SelectSeq(page, LAMBDA e : /\ body(e)
                                                   /\ e.tag = "p"
                                                   /\ text_len(e.text) > 30))
        li == get_texts(SelectSeq(page, LAMBDA e : /\ body(e)
                                                   /\ e.tag = "li"
                                                   /\ text_len(e.text) > 10))
    IN  [i \in 1..Len(h) |-> <<"TITULO: ", h[i]>>]
        \o [i \in 1..Len(ps) |-> <<ps[i]>>]
        \o [i \in 1..Len(li) |-> <<"* ", li[i]>>]

\* URBSMonitor.extract_content: '\n'.join(content_parts)
URBS_extract_content(page) ==
    IF page = <<>> THEN <<>> ELSE str_join(URBS_content_parts(page))

(***************************************************************************)
(* main: the environment and the configuration check.  A string is the     *)
(* sequence of its tokens ("," is a token of its own); a value read from   *)
(* the environment is None or a string.                                    *)
(***************************************************************************)
PyNone == [none |-> TRUE, str |-> <<>>]
PyStr(s) == [none |-> FALSE, str |-> s]

\* `not v` for v None or a string
py_not(v) == v.none \/ v.str = <<>>

\* an environment variable: unset, or set to a string
Unset == [set |-> FALSE, value |-> <<>>]
SetTo(s) == [set |-> TRUE, value |-> s]

\* os.getenv(name) and os.getenv(name, default)
os_getenv(env, name, default) ==
    IF env[name].set THEN PyStr(env[name].value) ELSE default

\* s.split(","): the pieces between the commas; [""] for the empty string
RECURSIVE str_split(_)
str_split(s) ==
    IF \A i \in 1..Len(s) : s[i] # ","
    THEN <<s>>
    ELSE LET i == CHOOSE k \in 1..Len(s) :
                      s[k] = "," /\ \A m \in 1..(k - 1) : s[m] # ","
         IN  <<SubSeq(s, 1, i - 1)>> \o str_split(SubSeq(s, i + 1, Len(s)))

\* what main reads: gmail_user, gmail_password, email_recipients
main_locals(env) ==
    [gmail_user |-> os_getenv(env, "GMAIL_USER", PyNone),
     gmail_password |-> os_getenv(env, "GMAIL_APP_PASSWORD", PyNone),
     email_recipients |-> str_split(os_getenv(env, "EMAIL_RECIPIENTS", PyStr(<<>>)).str)]

\* monitor.py main: `if not gmail_user or not gmail_password or not
\* email_recipients: sys.exit(1)`
main_rejects(cfg) ==
    \/ py_not(cfg.gmail_user)
    \/ py_not(cfg.gmail_password)
    \/ cfg.email_recipients = <<>>

\* monitor_urbs.py main: `if not gmail_user or not gmail_password`, then
\* `if not email_recipients or email_recipients == ['']`: sys.exit(1)
URBS_main_rejects(cfg) ==
    \/ py_not(cfg.gmail_user)
    \/ py_not(cfg.gmail_password)
    \/ cfg.email_recipients = <<>>
    \/ cfg.email_recipients = << <<>> >>

\* The environments explored: every variable set, and each variable in turn
\* unset or set to the empty string.
FullEnv ==
    [GMAIL_USER |-> SetTo(<<"user@gmail.com">>),
     GMAIL_APP_PASSWORD |-> SetTo(<<"app-password">>),
     EMAIL_RECIPIENTS |-> SetTo(<<"a@example.com", ",", "b@example.com">>)]

Envs ==
    {FullEnv} \cup
    {[FullEnv EXCEPT ![n] = v] :
        n \in {"GMAIL_USER", "GMAIL_APP_PASSWORD", "EMAIL_RECIPIENTS"},
        v \in {Unset, SetTo(<<>>)}}

\* the environments in which EMAIL_RECIPIENTS names recipients
RecipientEnvs ==
    {env \in Envs : env["EMAIL_RECIPIENTS"].set /\ env["EMAIL_RECIPIENTS"].value # <<>>}

(***************************************************************************)
(* State.                                                                  *)
(***************************************************************************)
VARIABLES
    prog,          \* the entry point run: "multi" (monitor.py) or "urbs"
    SITES,         \* MultiSiteMonitor.SITES
    hash_file,     \* the *_hash.json files, by stem
    content_file,  \* the *_content.txt files, by stem
    now,           \* datetime.now(): the number of the invocation
    pc,            \* where the process is
    idx,           \* position of run's loop in SITES
    driver,        \* self.driver
    engines,       \* engines created by this process
    changed_urls,  \* run's changed_urls
    errors,        \* run's errors
    content,       \* URBSMonitor.run's content
    retval,        \* what run returns: "None" before it does
    exit_code,     \* sys.exit of the last invocation, -1 before any
    notified,      \* calls of send_email_notification in this run
    hist,          \* the last two detect_change calls, the newer one last
    outcome,       \* per site of this run: "fetch_error", or ret of its detection
    attempts,      \* per site of this run: tries of its fetch
    shadow,        \* the hash files, had no detection of this run failed
    expected,      \* per site of this run: its outcome against `shadow`
    faults,        \* storage faults so far
    config,        \* main's gmail_user, gmail_password, email_recipients
    data_dir,      \* whether the directory data/ exists
    html,          \* extract_content's argument: the page, as it is now
    extracted,     \* extract_content's result for html: <<"none">> before the call
    prev_html,     \* the page as it was before it was rendered anew
    prev_extracted, \* extract_content's result for prev_html
    html_len       \* len(html) of the last fetch of this process, 0 when none

vars == <<prog, SITES, hash_file, content_file, now, pc, idx, driver, engines,
          changed_urls, errors, content, retval, exit_code, notified, hist,
          outcome, attempts, shadow, expected, faults, config, data_dir,
          html, extracted, prev_html, prev_extracted, html_len>>

\* what the normalizer works on
norm_vars == <<html, extracted, prev_html, prev_extracted>>

\* what main and run work on
run_vars == <<SITES, hash_file, content_file, now, pc, idx, driver, engines,
              changed_urls, errors, content, retval, exit_code, notified, hist,
              outcome, attempts, shadow, expected, faults, config, data_dir,
              html_len>>

\* before the first invocation: an empty store, no process
InitRun ==
    /\ prog \in {"multi", "urbs"}
    /\ SITES \in (IF prog = "multi" THEN SiteLists ELSE {<<URBS_URL>>})
    /\ hash_file = [s \in Stems |-> AbsentFile]
    /\ content_file = [s \in Stems |-> AbsentText]
    /\ now = 0
    /\ pc = "main"
    /\ idx = 1
    /\ driver = 0
    /\ engines = <<>>
    /\ changed_urls = <<>>
    /\ errors = <<>>
    /\ content = ""
    /\ retval = "None"
    /\ exit_code = -1
    /\ notified = <<>>
    /\ hist = <<>>
    /\ outcome = <<>>
    /\ attempts = <<>>
    /\ shadow = [s \in Stems |-> AbsentFile]
    /\ expected = <<>>
    /\ faults = 0
    /\ config = main_locals(FullEnv)
    /\ data_dir = FALSE
    /\ html_len = 0

Init ==
    /\ InitRun
    /\ html = <<>>
    /\ extracted = <<"none">>
    /\ prev_html = <<>>
    /\ prev_extracted = <<"none">>

\* The record of one detect_change call.
Call(url, c, d, hf, cf) ==
    [url |-> url, content |-> c, ret |-> d.ret,
     before |-> hf, after |-> d.hash_file,
     cbefore |-> cf, cafter |-> d.content_file]

\* The last two calls.
Remember(h, call) ==
    IF h = <<>> THEN <<call>> ELSE <<h[Len(h)], call>>

(***************************************************************************)
(* main and run of monitor.py and monitor_urbs.py.                         *)
(***************************************************************************)
\* main: a new process reads the environment, one of envs; sys.exit(1) when
\* the configuration is rejected, else MultiSiteMonitor(...) (its __init__
\* makes the directory data/) or URBSMonitor(...), and run starts.
main(envs) ==
    \E env \in envs :
        LET cfg == main_locals(env)
            rejected == IF prog = "multi" THEN main_rejects(cfg)
                        ELSE URBS_main_rejects(cfg)
        IN  /\ pc \in {"main", "exited", "crashed"}
            /\ now < MaxRuns
            /\ now' = now + 1
            /\ config' = cfg
            /\ pc' = IF rejected THEN "exited"
                     ELSE IF prog = "multi" THEN "sites" ELSE "fetch"
            /\ exit_code' = IF rejected THEN 1 ELSE exit_code
            /\ data_dir' = IF ~rejected /\ prog = "multi" THEN TRUE ELSE data_dir
            /\ idx' = 1
            /\ driver' = 0
            /\ engines' = <<>>
            /\ changed_urls' = <<>>
            /\ errors' = <<>>
            /\ content' = ""
            /\ retval' = "None"
            /\ notified' = <<>>
            /\ outcome' = <<>>
            /\ attempts' = <<>>
            /\ shadow' = hash_file
            /\ expected' = <<>>
            /\ html_len' = 0
            /\ UNCHANGED <<prog, SITES, hash_file, content_file, hist, faults,
                           norm_vars>>

\* main, where EMAIL_RECIPIENTS names recipients
StartRun == main(RecipientEnvs)

\* main, in any environment
StartRunAnyEnv == main(Envs)

\* One iteration of run's loop: get_site_content, detect_change, and the
\* except clause of the iteration.
SiteStep(how, c, fault) ==
    LET url == SITES[idx]
        stem == get_site_hash_file(url)
        g == get_site_content(driver, engines, how, c)
        d == detect_change(hash_file[stem], content_file[stem], g.content, now, fault)
        s == detect_change(shadow[stem], content_file[stem], g.content, now, "none")
        ret == IF g.raised THEN "fetch_error" ELSE d.ret
    IN  /\ prog = "multi"
        /\ pc = "sites"
        /\ how \in {"create_fail", "create_partial"} => driver = 0
        /\ driver' = g.driver
        /\ engines' = g.engines
        /\ attempts' = Append(attempts, g.attempts)
        /\ html_len' = g.html_len
        /\ IF g.raised
           THEN UNCHANGED <<hash_file, content_file, hist, shadow>>
           ELSE /\ hash_file' = [hash_file EXCEPT ![stem] = d.hash_file]
                /\ content_file' = [content_file EXCEPT ![stem] = d.content_file]
                /\ hist' = Remember(hist, Call(url, g.content, d,
                                                hash_file[stem], content_file[stem]))
                /\ shadow' = [shadow EXCEPT ![stem] = s.hash_file]
        /\ changed_urls' = IF ret = "True" THEN Append(changed_urls, url)
                           ELSE changed_urls
        /\ errors' = IF ret \in {"fetch_error", "raise"} THEN Append(errors, url)
                     ELSE errors
        /\ outcome' = Append(outcome, ret)
        /\ expected' = Append(expected, IF g.raised THEN "fetch_error" ELSE s.ret)
        /\ IF ret = "crash"
           THEN pc' = "crashed" /\ idx' = idx
           ELSE /\ idx' = idx + 1
                /\ pc' = IF idx + 1 > Len(SITES) THEN "notify" ELSE "sites"
        /\ faults' = IF fault = "none" THEN faults ELSE faults + 1
        /\ UNCHANGED <<prog, SITES, now, content, retval, exit_code, notified,
                       config, data_dir, norm_vars>>

\* the fetch of the site fails
SiteFetchError ==
    \E how \in FetchKinds \ {"ok"} : SiteStep(how, "", "none")

\* the fetch succeeds and every write of detect_change succeeds
SiteDetect ==
    \E c \in PageContents(prog) : SiteStep("ok", c, "none")

\* the fetch succeeds and a write of detect_change fails
SiteDetectFault ==
    \E c \in PageContents(prog), fault \in Faults \ {"none"} :
        LET stem == get_site_hash_file(SITES[idx])
        IN  /\ prog = "multi"
            /\ pc = "sites"
            /\ faults < MaxFaults
            /\ detect_change(hash_file[stem], content_file[stem], c, now, fault)
                 # detect_change(hash_file[stem], content_file[stem], c, now, "none")
            /\ SiteStep("ok", c, fault)

\* Notify with an undo of the run's writes when the notification fails: the
\* records written in this run are removed.
Notify_rolls_back ==
    \E ok \in BOOLEAN :
        /\ prog = "multi"
        /\ pc = "notify"
        /\ changed_urls = <<>> => ok
        /\ notified' = notified \o notifications(changed_urls)
        /\ retval' = IF ok THEN "True" ELSE "False"
        /\ pc' = "finally"
        /\ hash_file' = IF ok THEN hash_file
                        ELSE [s \in Stems |->
                                IF hash_file[s].kind = "json" /\ hash_file[s].timestamp = now
                                THEN AbsentFile ELSE hash_file[s]]
        /\ html_len' = 0
        /\ UNCHANGED <<prog, SITES, content_file, now, idx, driver,
                       engines, changed_urls, errors, content, exit_code, hist,
                       outcome, attempts, shadow, expected, faults, config,
                       data_dir, norm_vars>>

\* run after the loop: send_email_notification(changed_urls) when there are
\* changes; its exception reaches run's `except Exception`.
Notify ==
    \E ok \in BOOLEAN :
        /\ prog = "multi"
        /\ pc = "notify"
        /\ changed_urls = <<>> => ok
        /\ notified' = notified \o notifications(changed_urls)
        /\ retval' = IF ok THEN "True" ELSE "False"
        /\ pc' = "finally"
        /\ html_len' = 0
        /\ UNCHANGED <<prog, SITES, hash_file, content_file, now, idx, driver,
                       engines, changed_urls, errors, content, exit_code, hist,
                       outcome, attempts, shadow, expected, faults, config,
                       data_dir, norm_vars>>

\* URBSMonitor.run: content = self.get_urbs_content(); if not content:
\* return False
URBS_Fetch ==
    \E opt1 \in {"ok", "fail", "partial"}, opt2 \in {"ok", "fail", "partial"},
       page_ok \in BOOLEAN, how \in {"ok", "too_small"}, c \in PageContents(prog) :
        LET g == URBS_get_content(driver, engines, opt1, opt2, page_ok,
                                  page_source_len(how), c)
        IN  /\ prog = "urbs"
            /\ pc = "fetch"
            /\ opt1 = "ok" => opt2 = "ok"
            /\ html_len' = g.html_len
            \* c is what the page holds: it is not read when the fetch fails
            /\ c # "" => g.content = c
            /\ driver' = g.driver
            /\ engines' = g.engines
            /\ content' = g.content
            /\ attempts' = Append(attempts, 1)
            /\ IF g.content = ""
               THEN /\ retval' = "False"
                    /\ pc' = "finally"
                    /\ outcome' = Append(outcome, "fetch_error")
               ELSE /\ retval' = retval
                    /\ pc' = "detect"
                    /\ outcome' = outcome
            /\ UNCHANGED <<prog, SITES, hash_file, content_file, now, idx,
                           changed_urls, errors, exit_code, notified, hist,
                           shadow, expected, faults, config, data_dir, norm_vars>>

\* changed = self.detect_change(content)
URBS_DetectStep(fault) ==
    LET stem == URBS_hash_file
        d == URBS_detect_change(hash_file[stem], content_file[stem], content, now, fault)
    IN  /\ prog = "urbs"
        /\ pc = "detect"
        /\ hash_file' = [hash_file EXCEPT ![stem] = d.hash_file]
        /\ content_file' = [content_file EXCEPT ![stem] = d.content_file]
        /\ hist' = Remember(hist, Call(URBS_URL, content, d,
                                        hash_file[stem], content_file[stem]))
        /\ outcome' = Append(outcome, d.ret)
        /\ changed_urls' = IF d.ret = "True" THEN <<URBS_URL>> ELSE changed_urls
        /\ pc' = CASE d.ret = "crash" -> "crashed"
                   [] d.ret = "True" -> "notify"
                   [] OTHER -> "finally"
        /\ retval' = IF d.ret = "False" THEN "True" ELSE retval
        /\ faults' = IF fault = "none" THEN faults ELSE faults + 1
        /\ html_len' = 0
        /\ UNCHANGED <<prog, SITES, now, idx, driver, engines, errors, content,
                       exit_code, notified, attempts, shadow, expected, config,
                       data_dir, norm_vars>>

URBS_Detect == URBS_DetectStep("none")

URBS_DetectFault ==
    \E fault \in Faults \ {"none"} :
        /\ prog = "urbs"
        /\ pc = "detect"
        /\ faults < MaxFaults
        /\ URBS_detect_change(hash_file[URBS_hash_file], content_file[URBS_hash_file],
                              content, now, fault)
             # URBS_detect_change(hash_file[URBS_hash_file], content_file[URBS_hash_file],
                                  content, now, "none")
        /\ URBS_DetectStep(fault)

\* if changed: self.send_email_notification() (returns True or False, the
\* result is not used); return True
URBS_Notify ==
    /\ prog = "urbs"
    /\ pc = "notify"
    /\ notified' = Append(notified, <<URBS_URL>>)
    /\ retval' = "True"
    /\ pc' = "finally"
    /\ UNCHANGED <<prog, SITES, hash_file, content_file, now, idx, driver,
                   engines, changed_urls, errors, content, exit_code, hist,
                   outcome, attempts, shadow, expected, faults, config,
                   data_dir, norm_vars, html_len>>

\* Finally with an exit code that also fails the run on per-site errors.
Finally_fails_on_errors ==
    /\ pc = "finally"
    /\ engines' = release(driver, engines)
    /\ exit_code' = IF retval = "True" /\ errors = <<>> THEN 0 ELSE 1
    /\ pc' = "exited"
    /\ html_len' = 0
    /\ UNCHANGED <<prog, SITES, hash_file, content_file, now, idx, driver,
                   changed_urls, errors, content, retval, notified, hist,
                   outcome, attempts, shadow, expected, faults, config,
                   data_dir, norm_vars>>

\* run's finally clause, then main: sys.exit(0 if run() else 1)
Finally ==
    /\ pc = "finally"
    /\ engines' = release(driver, engines)
    /\ exit_code' = IF retval = "True" THEN 0 ELSE 1
    /\ pc' = "exited"
    /\ html_len' = 0
    /\ UNCHANGED <<prog, SITES, hash_file, content_file, now, idx, driver,
                   changed_urls, errors, content, retval, notified, hist,
                   outcome, attempts, shadow, expected, faults, config,
                   data_dir, norm_vars>>

\* The program with a store whose writes succeed.
Next ==
    \/ StartRun
    \/ SiteFetchError
    \/ SiteDetect
    \/ Notify
    \/ URBS_Fetch
    \/ URBS_Detect
    \/ URBS_Notify
    \/ Finally

Spec == Init /\ [][Next]_vars

\* The program with a store whose writes may fail, and a process that may
\* die while it writes.
FaultNext ==
    \/ Next
    \/ SiteDetectFault
    \/ URBS_DetectFault

FaultSpec == Init /\ [][FaultNext]_vars

\* The program with a store whose writes succeed, in any environment.
EnvNext ==
    \/ StartRunAnyEnv
    \/ SiteFetchError
    \/ SiteDetect
    \/ Notify
    \/ URBS_Fetch
    \/ URBS_Detect
    \/ URBS_Notify
    \/ Finally

EnvSpec == Init /\ [][EnvNext]_vars

(***************************************************************************)
(* The normalizer alone: a page is normalized, rendered anew with the same *)
(* qualifying fragments in another arrangement, and normalized again.      *)
(***************************************************************************)
\* content = self.extract_content(html), of the monitor that runs
ExtractContent ==
    /\ extracted = <<"none">>
    /\ extracted' = IF prog = "multi" THEN extract_content(html)
                    ELSE URBS_extract_content(html)
    /\ UNCHANGED <<prog, run_vars, html, prev_html, prev_extracted>>

\* the set of the fragments of a page that qualify for the monitor that runs
Fragments(page) ==
    IF prog = "multi"
    THEN {<<titles(page)[i]>> : i \in 1..Len(titles(page))}
    ELSE {URBS_content_parts(page)[i] : i \in 1..Len(URBS_content_parts(page))}

\* the site serves the page anew: the same qualifying fragments, in any
\* order and with any repetition
Rerender ==
    \E page \in Pages :
        /\ extracted # <<"none">>
        /\ prev_extracted = <<"none">>
        /\ Fragments(page) = Fragments(html)
        /\ prev_html' = html
        /\ prev_extracted' = extracted
        /\ html' = page
        /\ extracted' = <<"none">>
        /\ UNCHANGED <<prog, run_vars>>

NormInit ==
    /\ InitRun
    /\ html \in Pages
    /\ extracted = <<"none">>
    /\ prev_html = <<>>
    /\ prev_extracted = <<"none">>

NormNext ==
    \/ ExtractContent
    \/ Rerender

NormSpec == NormInit /\ [][NormNext]_vars

(***************************************************************************)
(* Properties.                                                             *)
(***************************************************************************)
Calls == {hist[i] : i \in 1..Len(hist)}

\* the viability threshold of the program that runs
Viable(c) ==
    c # "" /\ len(c) >= (IF prog = "multi" THEN MIN_CONTENT ELSE URBS_MIN_CONTENT)

HasFingerprint(hf) == hf.kind = "json" /\ hf.hash # ""

\* the call found a stored fingerprint and got viable content of another
\* digest
ChangeCase(call) ==
    /\ HasFingerprint(call.before)
    /\ Viable(call.content)
    /\ calculate_hash(call.content) # call.before.hash

\* two calls in a row for the same site with the same content
Repeated ==
    /\ Len(hist) = 2
    /\ hist[2].url = hist[1].url
    /\ hist[2].content = hist[1].content

\* C1: a detect_change call that finds a stored fingerprint and gets viable
\* content of another digest returns True and stores the digest of the
\* content; the next call, for the same site with the same content, returns
\* False.
C1_ChangeReportedOnce ==
    /\ \A call \in Calls :
          ChangeCase(call) =>
              /\ call.ret = "True"
              /\ HasFingerprint(call.after)
              /\ call.after.hash = calculate_hash(call.content)
    /\ (Repeated /\ ChangeCase(hist[1])) => hist[2].ret = "False"

C1_Witness ==
    /\ Repeated
    /\ ChangeCase(hist[1])
    /\ hist[1].ret = "True"
    /\ hist[2].ret = "False"

\* C2 as claimed: the first call for a site (no hash file yet) never returns
\* True and leaves a stored fingerprint, whatever the content.
C2_BaselineAnyContent ==
    \A call \in Calls :
        call.before.kind = "absent" =>
            /\ call.ret # "True"
            /\ HasFingerprint(call.after)

\* C2 as amended: the first call for a site (no hash file yet) never returns
\* True; with viable content it leaves the digest of the content stored,
\* with content under the threshold it leaves no hash file.
C2_BaselineViableContent ==
    \A call \in Calls :
        call.before.kind = "absent" =>
            /\ call.ret = "False"
            /\ Viable(call.content) =>
                  /\ HasFingerprint(call.after)
                  /\ call.after.hash = calculate_hash(call.content)
            /\ ~Viable(call.content) => call.after = AbsentFile

C2_Witness ==
    \E call \in Calls :
        /\ call.before.kind = "absent"
        /\ Viable(call.content)
        /\ call.ret = "False"
        /\ call.after.hash = calculate_hash(call.content)

\* C3: of two calls in a row for the same site with the same content, the
\* second returns False and leaves the hash file exactly as the first left
\* it (timestamp included); the first returns False too unless the content
\* differs from the fingerprint it found.
C3_NoOpStability ==
    Repeated =>
        /\ hist[2].ret = "False"
        /\ hist[2].after = hist[1].after
        /\ ~ChangeCase(hist[1]) => hist[1].ret = "False"

C3_Witness ==
    /\ Repeated
    /\ Viable(hist[1].content)
    /\ hist[1].ret = "False"
    /\ hist[2].ret = "False"
    /\ HasFingerprint(hist[2].after)
    /\ hist[2].after = hist[1].after
    /\ hist[2].after.timestamp < now

Rejected(call) ==
    /\ call.ret = "False"
    /\ call.after = call.before
    /\ call.cafter = call.cbefore

Baselined(call) ==
    /\ call.ret = "False"
    /\ HasFingerprint(call.after)
    /\ call.after.hash = calculate_hash(call.content)
    /\ call.cafter = TextFile(call.content)

EmptyStore(call) == call.before = AbsentFile /\ call.cbefore = AbsentText

\* C4 as claimed: content of length 40 is rejected and leaves the hash file
\* and the content file as they were; content of length 60 on an empty
\* store is stored as the baseline.
C4_Viability40And60 ==
    \A call \in Calls :
        /\ len(call.content) = 40 => Rejected(call)
        /\ (len(call.content) = 60 /\ EmptyStore(call)) => Baselined(call)

\* C4 as amended: content of length 40 is rejected (False is returned,
\* nothing is raised) and leaves the hash file and the content file as they
\* were; content of length 60 on an empty store is stored as the baseline by
\* MultiSiteMonitor (threshold 50) and rejected by URBSMonitor (threshold
\* 100), which stores content of length 120 as the baseline.
C4_ViabilityPerMonitor ==
    \A call \in Calls :
        /\ len(call.content) = 40 => Rejected(call)
        /\ (len(call.content) = 60 /\ EmptyStore(call)) =>
              IF prog = "multi" THEN Baselined(call) ELSE Rejected(call)
        /\ (len(call.content) = 120 /\ EmptyStore(call)) => Baselined(call)

C4_Witness ==
    /\ prog = "urbs"
    /\ \E call \in Calls :
          /\ len(call.content) = 60
          /\ EmptyStore(call)
          /\ Rejected(call)

\* main has exited before run (the configuration was rejected)
MainRejected == pc = "exited" /\ retval = "None"

\* the loop of MultiSiteMonitor.run is over
LoopDone ==
    /\ prog = "multi"
    /\ pc \in {"notify", "finally", "exited"}
    /\ ~MainRejected

Failed(i) == outcome[i] \in {"fetch_error", "raise"}

\* C5: in MultiSiteMonitor.run, whatever sites fail, every site of the list
\* is processed, a failing site is in errors and not in the changed batch,
\* and the result of a site that does not fail is the one it has when no
\* detection of the run fails.
C5_Isolation ==
    LoopDone =>
        /\ Len(outcome) = Len(SITES)
        /\ \A i \in 1..Len(outcome) :
              /\ Failed(i) =>
                    /\ \E j \in 1..Len(errors) : errors[j] = SITES[i]
                    /\ \A j \in 1..Len(changed_urls) : changed_urls[j] # SITES[i]
              /\ ~Failed(i) => outcome[i] = expected[i]

\* the same, for lists whose sites have distinct names (get_site_name)
C5_IsolationDistinctNames ==
    (\A i, j \in 1..Len(SITES) :
        i # j => get_site_name(SITES[i]) # get_site_name(SITES[j]))
    => C5_Isolation

\* the sites whose detection returned True, in the order of SITES
ChangedSites ==
    LET Pick(i) == outcome[i] = "True"
        F[i \in 0..Len(outcome)] ==
            IF i = 0 THEN <<>>
            ELSE IF Pick(i) THEN Append(F[i - 1], SITES[i]) ELSE F[i - 1]
    IN  F[Len(outcome)]

\* C6: in MultiSiteMonitor.run send_email_notification is not called while
\* sites are processed (nor by a main that exits before run, where retval
\* is "None"); once the run is past its notification step it has
\* been called exactly once, with all the sites whose detection returned
\* True, when there is such a site, and not at all when there is none.
C6_BatchNotification ==
    prog = "multi" =>
        /\ pc \in {"sites", "notify", "crashed"} => notified = <<>>
        /\ (pc \in {"finally", "exited"} /\ retval # "None") =>
              /\ Len(outcome) = Len(SITES)
              /\ notified = IF ChangedSites # <<>> THEN <<ChangedSites>> ELSE <<>>
        /\ retval = "None" => notified = <<>>

C6_Witness ==
    /\ prog = "multi"
    /\ pc = "exited"
    /\ Len(ChangedSites) = 2
    /\ notified = <<ChangedSites>>

\* C7: when run has returned, every engine created during the run has been
\* torn down (quit) exactly once.
C7_EngineRelease ==
    pc = "exited" => \A e \in 1..Len(engines) : engines[e] = 1

\* the same, for MultiSiteMonitor.run alone
C7_EngineReleaseMulti ==
    prog = "multi" => C7_EngineRelease

\* C8 as claimed: a site is recorded as a fetch failure only when three
\* attempts of its fetch have failed.
C8_ThreeAttempts ==
    prog = "multi" =>
        \A i \in 1..Len(outcome) : outcome[i] = "fetch_error" => attempts[i] = 3

\* C8 as amended: the fetch of a site is tried once per run; when it fails the
\* site is recorded in errors at once, and the engine is neither discarded
\* nor created anew (at most one engine per run, not quit before run's
\* finally clause); a site whose fetch succeeds goes on to change detection.
C8_SingleAttempt ==
    prog = "multi" =>
        /\ \A i \in 1..Len(outcome) :
              /\ attempts[i] = 1
              /\ outcome[i] = "fetch_error" =>
                    \E j \in 1..Len(errors) : errors[j] = SITES[i]
              /\ (/\ outcome[i] # "fetch_error"
                  /\ \A j \in (i + 1)..Len(outcome) : outcome[j] = "fetch_error")
                 => /\ hist # <<>>
                    /\ hist[Len(hist)].url = SITES[i]
                    /\ hist[Len(hist)].ret = outcome[i]
        /\ Len(engines) <= 1
        /\ pc \in {"sites", "notify", "finally"} =>
              \A e \in 1..Len(engines) : engines[e] = 0

C8_Witness ==
    /\ prog = "multi"
    /\ Len(outcome) = 2
    /\ outcome[1] = "fetch_error"
    /\ attempts[1] = 1
    /\ outcome[2] \in {"True", "False"}
    /\ engines = <<0>>

\* load_last_hash of the program that runs
Load(hf) ==
    IF prog = "multi" THEN load_last_hash(hf)
    ELSE [raised |-> FALSE, value |-> URBS_load_last_hash(hf)]

\* C9: whatever happens during the save_hash of a detect_change call that
\* found a stored fingerprint, load_last_hash afterwards returns that
\* fingerprint or the new one.
C9_CrashAtomicSave ==
    \A call \in Calls :
        HasFingerprint(call.before) =>
            /\ ~Load(call.after).raised
            /\ Load(call.after).value \in
                  {call.before.hash, calculate_hash(call.content)}

\* C10: a detect_change call that finds a hash file that exists and does
\* not parse fails with an error: the file is not read as "no record", and
\* the content is not stored as a new baseline.
C10_CorruptionIsAnError ==
    \A call \in Calls :
        (call.before.kind = "partial" /\ Viable(call.content)) =>
            /\ call.ret = "raise"
            /\ call.after = call.before

\* the same, for MultiSiteMonitor alone
C10_CorruptionIsAnErrorMulti ==
    prog = "multi" => C10_CorruptionIsAnError

\* the detect_change calls of the run in progress (or of the last run), in
\* the order of the run
RunCalls ==
    LET k == Cardinality({i \in 1..Len(outcome) : outcome[i] # "fetch_error"})
    IN  SubSeq(hist, Len(hist) - k + 1, Len(hist))

\* MultiSiteMonitor.run is past a send_email_notification that raised
NotificationFailed ==
    /\ prog = "multi"
    /\ pc \in {"finally", "exited"}
    /\ notified # <<>>
    /\ retval = "False"

\* C11: when send_email_notification has failed in MultiSiteMonitor.run, the
\* failure is what run reports (it returns False, the process exits with 1),
\* and the store is as the loop left it: every detection of the run that
\* returned True left the digest of its content stored, and every record
\* still is as the last detection of the run on it left it.
C11_NoRollback ==
    NotificationFailed =>
        /\ pc = "exited" => exit_code = 1
        /\ \E i \in 1..Len(RunCalls) : RunCalls[i].ret = "True"
        /\ \A i \in 1..Len(RunCalls) :
              LET call == RunCalls[i]
                  stem == get_site_hash_file(call.url)
              IN  /\ call.ret = "True" =>
                        call.after = JsonFile(calculate_hash(call.content), now)
                  /\ (\A j \in (i + 1)..Len(RunCalls) :
                         get_site_hash_file(RunCalls[j].url) # stem)
                     => /\ hash_file[stem] = call.after
                        /\ content_file[stem] = call.cafter

C11_Witness ==
    /\ NotificationFailed
    /\ pc = "exited"
    /\ exit_code = 1
    /\ Len(RunCalls) = 2
    /\ RunCalls[1].ret = "True"
    /\ RunCalls[2].ret = "True"
    /\ \A i \in 1..2 :
          hash_file[get_site_hash_file(RunCalls[i].url)]
              = JsonFile(calculate_hash(RunCalls[i].content), now)

\* the operator identity, the credential or the recipient list is absent
Absent(cfg) ==
    \/ py_not(cfg.gmail_user)
    \/ py_not(cfg.gmail_password)
    \/ \A i \in 1..Len(cfg.email_recipients) : cfg.email_recipients[i] = <<>>

\* the run of the last invocation went through all its sites
AllSitesProcessed ==
    IF prog = "multi" THEN Len(outcome) = Len(SITES) ELSE outcome # <<>>

\* C12 as claimed: for both monitors, an invocation whose run processed all
\* its sites and met no top-level failure (an exception that reaches run's
\* outer except clause: the notification raising) exits with 0, whatever
\* per-site errors there were, and an invocation exits with 1 only when the
\* configuration is absent or on such a top-level failure.
C12_ExitContract ==
    pc = "exited" =>
        /\ (AllSitesProcessed /\ ~NotificationFailed) => exit_code = 0
        /\ exit_code = 1 => (Absent(config) \/ NotificationFailed)

\* C12 as amended: that contract holds for MultiSiteMonitor; URBSMonitor
\* exits with 1 also when the fetch of its site yields no content, and with 0
\* in every other case in which its run started (content under the viability
\* threshold and a notification that failed included).
C12_ExitContractPerMonitor ==
    pc = "exited" =>
        /\ exit_code \in {0, 1}
        /\ prog = "multi" =>
              /\ (AllSitesProcessed /\ ~NotificationFailed) => exit_code = 0
              /\ exit_code = 1 => (Absent(config) \/ NotificationFailed)
        /\ prog = "urbs" =>
              /\ (AllSitesProcessed /\ outcome # <<"fetch_error">>) => exit_code = 0
              /\ exit_code = 1 => (Absent(config) \/ outcome = <<"fetch_error">>)

C12_Witness ==
    /\ prog = "multi"
    /\ pc = "exited"
    /\ ~Absent(config)
    /\ Len(outcome) = Len(SITES)
    /\ \A i \in 1..Len(outcome) : Failed(i)
    /\ \E i \in 1..Len(outcome) : outcome[i] = "raise"
    /\ exit_code = 0

\* C13: a step of MultiSiteMonitor.run's loop, which processes the site
\* SITES[idx], leaves the fingerprint record and the content snapshot of
\* every other site of the list as they were.
C13_PerSiteIndependence ==
    [][(prog = "multi" /\ pc = "sites") =>
          \A i \in 1..Len(SITES) :
              SITES[i] # SITES[idx] =>
                  /\ hash_file'[get_site_hash_file(SITES[i])]
                        = hash_file[get_site_hash_file(SITES[i])]
                  /\ content_file'[get_site_hash_file(SITES[i])]
                        = content_file[get_site_hash_file(SITES[i])]]_vars

\* C14: an invocation whose operator identity, credential or recipient list
\* is absent (unset or empty) ends at once with exit code 1: no monitor is
\* constructed (data/ is not made, no engine exists), no site is processed
\* and the store is left as it was.
C14_FatalMisconfiguration ==
    [][Absent(config') =>
          /\ pc' = "exited"
          /\ exit_code' = 1
          /\ data_dir' = data_dir
          /\ engines' = <<>>
          /\ outcome' = <<>>
          /\ hash_file' = hash_file
          /\ content_file' = content_file]_vars

\* the same, for the entry point of monitor_urbs.py alone
C14_FatalMisconfigurationURBS ==
    [][prog = "urbs" /\ Absent(config') =>
          /\ pc' = "exited"
          /\ exit_code' = 1
          /\ data_dir' = data_dir
          /\ engines' = <<>>
          /\ outcome' = <<>>
          /\ hash_file' = hash_file
          /\ content_file' = content_file]_vars

\* both renderings of the page have been normalized
BothExtracted == extracted # <<"none">> /\ prev_extracted # <<"none">>

\* the deduplicated fragments of a page, sorted and joined by newlines
SortedFragments(page) ==
    LET RECURSIVE by_rank(_)
        by_rank(S) ==
            IF S = {} THEN <<>>
            ELSE LET m == CHOOSE x \in S :
                              \A y \in S : str_rank(x[Len(x)]) <= str_rank(y[Len(y)])
                 IN  <<m>> \o by_rank(S \ {m})
    IN  str_join(by_rank(Fragments(page)))

UndersizedFetch ==
    /\ Len(attempts') = Len(attempts) + 1
    /\ html_len' > 0
    /\ html_len' < MIN_HTML

\* no normalized content reaches detect_change, the store is as it was, and
\* the site is not in the changed batch
TreatedAsFetchFailure ==
    /\ outcome' = Append(outcome, "fetch_error")
    /\ pc' # "detect"
    /\ hist' = hist
    /\ hash_file' = hash_file
    /\ content_file' = content_file
    /\ changed_urls' = changed_urls

\* C16 as claimed: for both monitors, a fetch whose markup is shorter than
\* 5000 characters is a failure of the fetch: no change detection is
\* performed, the store is left as it was, the site is not reported as
\* changed, and the site is recorded as an error (MultiSiteMonitor: in
\* errors; URBSMonitor: run returns False).
C16_UndersizedFetch ==
    [][UndersizedFetch =>
          /\ TreatedAsFetchFailure
          /\ prog = "multi" => errors' = Append(errors, SITES[idx])
          /\ prog = "urbs" => retval' = "False"]_vars

\* C16 as amended: that holds for MultiSiteMonitor; URBSMonitor does not
\* check the size of the markup: what becomes of the fetch depends on the
\* normalized content alone, which goes on to detect_change unless it is
\* empty.
C16_UndersizedFetchMulti ==
    [][UndersizedFetch =>
          /\ prog = "multi" =>
                /\ TreatedAsFetchFailure
                /\ errors' = Append(errors, SITES[idx])
          /\ prog = "urbs" =>
                IF content' = ""
                THEN TreatedAsFetchFailure /\ retval' = "False"
                ELSE pc' = "detect" /\ outcome' = outcome]_vars

C16_Witness ==
    /\ prog = "multi"
    /\ html_len = MIN_HTML - 1
    /\ Len(outcome) = 2
    /\ outcome[2] = "fetch_error"
    /\ errors # <<>>
    /\ errors[Len(errors)] = SITES[2]
    /\ HasFingerprint(hash_file[get_site_hash_file(SITES[2])])
    /\ hash_file[get_site_hash_file(SITES[2])].timestamp < now
    /\ changed_urls = <<>>

\* C17: a detect_change call that returns True leaves the digest of its
\* content stored, also when a write of the store fails; and a call that
\* follows it for the same site with the same content does not return True.
C17_ReportedImpliesPersisted ==
    /\ \A call \in Calls :
          call.ret = "True" =>
              /\ HasFingerprint(call.after)
              /\ call.after.hash = calculate_hash(call.content)
    /\ (Repeated /\ hist[1].ret = "True") => hist[2].ret # "True"

\* the same, for MultiSiteMonitor.detect_change alone
C17_ReportedImpliesPersistedMulti ==
    prog = "multi" => C17_ReportedImpliesPersisted

\* every stored fingerprint is the digest of the stored snapshot of its site
Consistent ==
    \A stem \in Stems :
        HasFingerprint(hash_file[stem]) =>
            /\ content_file[stem].kind = "text"
            /\ calculate_hash(content_file[stem].text) = hash_file[stem].hash

====
